---- MODULE Spec2Model ----
(***************************************************************************)
(* The connection task of the redis-go server (Server.serveConnection),    *)
(* its dispatch path (serveCommands, serveRequest, serveRedis) and the     *)
(* response writers a handler is given (responseWriter and                 *)
(* preparedResponseWriter), for one accepted connection.                   *)
(*                                                                         *)
(* The write buffer of the connection only reaches the transport in        *)
(* Flush and WriteArgs; the transport is taken to accept every write.      *)
(* Server.EnablePipeline keeps the zero value of the Server struct in the  *)
(* connection task.                                                        *)
(*                                                                         *)
(* Beside the connection task (Spec, and PingSpec for a handler that       *)
(* writes one reply per command) the module holds five machines of their   *)
(* own: the Server with its listener, Serve and Shutdown (ServerSpec and   *)
(* ServerFairSpec), the calls of serveCommands with the in-flight          *)
(* counters of the metrics sink (MetricsSpec), the argument lists of       *)
(* args.go (ArgsSpec), the txArgs of a MULTI/EXEC reply with the read      *)
(* mutex of its connection (TxSpec), and two hash rings built over the     *)
(* endpoints of the hash-ring test (RingSpec). Each machine leaves the     *)
(* variables of the others as they are.                                    *)
(***************************************************************************)
EXTENDS Integers, Sequences, FiniteSets, TLC

\* ------------------------------------------------------------------ bounds

\* commands a client sends in one batch (one command, or a transaction)
MaxCmds == 4
\* calls a handler makes on its ResponseWriter in one ServeRedis
MaxCalls == 4
\* largest n a handler passes to WriteStream
MaxStream == 2
\* connections registered with the Server at one time
MaxConns == 2
\* temporary errors of Accept in a row
MaxAttempt == 2
\* commands in one call of serveCommands
MaxNames == 2
\* calls of serveCommands nested by servePipeline
MaxDepth == 2
\* values in one argument list
MaxArgs == 2
\* argument lists given to MultiArgs
MaxLists == 2
\* destinations given to ParseArgs
MaxDsts == 2
\* argument lists of one transaction's reply
MaxTxArgs == 2
\* calls of txArgs.Close that return
MaxTxCloses == 2
\* largest token of the hash ring: tokens and hashes of keys are 0 .. MaxToken
MaxToken == 2
\* keys in the sample given to distribute
MaxKeys == 2

\* ------------------------------------------------------------ vocabulary

NoArgs == <<>>

Command(c, a) == [Cmd |-> c, Args |-> a]

\* the commands a client sends: the three opcodes the server recognises,
\* EXEC, and one opaque command forwarded to the handler
Commands ==
    { Command("MULTI", NoArgs), Command("EXEC", NoArgs),
      Command("DISCARD", NoArgs), Command("PING", NoArgs),
      Command("PING", <<"hello">>), Command("SET", <<"a">>) }

\* the values a handler writes
HandlerValues == {"x", "y"}

\* what the encoders put in the write buffer: one RESP value, or the
\* header that opens an array of n values
Val(v) == [t |-> "val", n |-> 0, v |-> v]
ArrayOpen(n) == [t |-> "array", n |-> n, v |-> ""]

RECURSIVE CountVals(_)
CountVals(s) ==
    IF s = <<>> THEN 0
    ELSE (IF s[1].t = "val" THEN 1 ELSE 0) + CountVals(Tail(s))

RECURSIVE Repeat(_, _)
Repeat(x, k) == IF k <= 0 THEN <<>> ELSE <<x>> \o Repeat(x, k - 1)

\* ------------------------------------------------------- responseWriter
\* A writer is [conn, wtype, remain]; conn is FALSE once res.conn is nil.
\* Every method returns the writer, the write buffer and the bytes on the
\* wire after the call, and the error it returns.

NewResponseWriter == [conn |-> TRUE, wtype |-> "notype", remain |-> 0]

Ret(w, buf, out, e) == [res |-> w, wbuffer |-> buf, wire |-> out, err |-> e]

WriteStreamNoStateCheck(w, buf, out, n) ==
    IF ~w.conn THEN Ret(w, buf, out, "ErrHijacked")
    ELSE IF n < 0 THEN Ret(w, buf, out, "ErrNegativeStreamCount")
    ELSE Ret([w EXCEPT !.wtype = "stream", !.remain = n],
             Append(buf, ArrayOpen(n)), out, "nil")

WriteStream(w, buf, out, n) ==
    IF ~w.conn THEN Ret(w, buf, out, "ErrHijacked")
    ELSE IF n < 0 THEN Ret(w, buf, out, "ErrNegativeStreamCount")
    ELSE IF w.wtype = "oneshot"
         THEN Ret(w, buf, out, "ErrWriteStreamCalledAfterWrite")
    ELSE IF w.wtype = "stream"
         THEN Ret(w, buf, out, "ErrWriteStreamCalledTooManyTimes")
    ELSE Ret([w EXCEPT !.wtype = "stream", !.remain = n],
             Append(buf, ArrayOpen(n)), out, "nil")

WriteNoRemainCheck(w, buf, out, v) ==
    IF ~w.conn THEN Ret(w, buf, out, "ErrHijacked")
    ELSE LET w1 == IF w.wtype = "notype"
                   THEN [w EXCEPT !.wtype = "oneshot", !.remain = 1]
                   ELSE w
         IN Ret([w1 EXCEPT !.remain = IF @ = 0 THEN 0 ELSE @ - 1],
                Append(buf, Val(v)), out, "nil")

WriteCountsRefused(w, buf, out, v) ==
    IF ~w.conn THEN Ret(w, buf, out, "ErrHijacked")
    ELSE LET w1 == IF w.wtype = "notype"
                   THEN [w EXCEPT !.wtype = "oneshot", !.remain = 1]
                   ELSE w
         IN IF w1.remain = 0
            THEN Ret([w1 EXCEPT !.remain = @ - 1], buf, out,
                     "ErrWriteCalledTooManyTimes")
            ELSE Ret([w1 EXCEPT !.remain = @ - 1],
                     Append(buf, Val(v)), out, "nil")

Write(w, buf, out, v) ==
    IF ~w.conn THEN Ret(w, buf, out, "ErrHijacked")
    ELSE LET w1 == IF w.wtype = "notype"
                   THEN [w EXCEPT !.wtype = "oneshot", !.remain = 1]
                   ELSE w
         IN IF w1.remain = 0
            THEN Ret(w1, buf, out, "ErrWriteCalledTooManyTimes")
            ELSE Ret([w1 EXCEPT !.remain = @ - 1],
                     Append(buf, Val(v)), out, "nil")

FlushNoRemainCheck(w, buf, out) ==
    IF ~w.conn THEN Ret(w, buf, out, "ErrHijacked")
    ELSE LET r == IF w.wtype = "notype"
                  THEN Write(w, buf, out, "OK")
                  ELSE Ret(w, buf, out, "nil")
         IN IF r.err # "nil" THEN r
            ELSE Ret(r.res, <<>>, out \o r.wbuffer, "nil")

FlushSkipsOK(w, buf, out) ==
    IF ~w.conn THEN Ret(w, buf, out, "ErrHijacked")
    ELSE IF w.remain # 0
         THEN Ret(w, buf, out, "ErrWriteCalledNotEnoughTimes")
    ELSE Ret(w, <<>>, out \o buf, "nil")

Flush(w, buf, out) ==
    IF ~w.conn THEN Ret(w, buf, out, "ErrHijacked")
    ELSE LET r == IF w.wtype = "notype"
                  THEN Write(w, buf, out, "OK")
                  ELSE Ret(w, buf, out, "nil")
         IN IF r.err # "nil" THEN r
            ELSE IF r.res.remain # 0
                 THEN Ret(r.res, r.wbuffer, out, "ErrWriteCalledNotEnoughTimes")
            ELSE Ret(r.res, <<>>, out \o r.wbuffer, "nil")

\* Hijack sets res.conn to nil and then calls setState on it. The call has a
\* nil receiver: it either panics in the handler's goroutine or returns
\* without reaching the connection, and in neither case does the state tag
\* of the connection change.
SetStateOnNilConn == {"panic", "nil"}

Hijack(w, buf, out, outcome) ==
    IF ~w.conn THEN Ret(w, buf, out, "ErrHijacked")
    ELSE Ret([w EXCEPT !.conn = FALSE], buf, out, outcome)

\* ------------------------------------------------ preparedResponseWriter
\* [index, responses] over the base writer; a response is [index, value].

NewPrepared == [index |-> 0, responses |-> <<>>]

PRet(p, r) ==
    [prep |-> p, res |-> r.res, wbuffer |-> r.wbuffer, wire |-> r.wire,
     err |-> r.err]

preparedWriteStream(p, w, buf, out, n) ==
    PRet(p, Ret(w, buf, out, "ErrWriteStreamCalledTooManyTimes"))

preparedWrite(p, w, buf, out, v) ==
    IF p.responses # <<>> /\ p.responses[1].index = p.index
    THEN LET r1 == Write(w, buf, out, p.responses[1].value)
         IN IF r1.err # "nil" THEN PRet(p, r1)
            ELSE PRet([index |-> p.index + 1, responses |-> Tail(p.responses)],
                      Write(r1.res, r1.wbuffer, r1.wire, v))
    ELSE PRet([p EXCEPT !.index = @ + 1], Write(w, buf, out, v))

preparedFlush(p, w, buf, out) == PRet(p, Flush(w, buf, out))

preparedHijack(p, w, buf, out, outcome) == PRet(p, Hijack(w, buf, out, outcome))

RECURSIVE WriteValues(_, _, _, _)
WriteValues(rs, w, buf, out) ==
    IF rs = <<>> THEN Ret(w, buf, out, "nil")
    ELSE LET r == Write(w, buf, out, rs[1].value)
         IN IF r.err # "nil" THEN r
            ELSE WriteValues(Tail(rs), r.res, r.wbuffer, r.wire)

writeRemainingValues(p, w, buf, out) ==
    PRet([p EXCEPT !.responses = <<>>], WriteValues(p.responses, w, buf, out))

\* ------------------------------------------------------------ ParseArgs
\* cmd.ParseArgs(&msg) with msg preset to "PONG": the first argument
\* replaces msg when there is one.
PingMessage(cmd) == IF cmd.Args = NoArgs THEN "PONG" ELSE cmd.Args[1]

\* ---------------------------------------- serveRequest: PING extraction
\* The loop over req.Cmds keeps the other commands in order in
\* req.Cmds[:i] and records each PING with the i reached when it is met.

RECURSIVE UserCommands(_)
UserCommands(cs) ==
    IF cs = <<>> THEN <<>>
    ELSE IF cs[1].Cmd = "PING" THEN UserCommands(Tail(cs))
    ELSE <<cs[1]>> \o UserCommands(Tail(cs))

RECURSIVE PreparedFrom(_, _)
PreparedFrom(cs, i) ==
    IF cs = <<>> THEN <<>>
    ELSE IF cs[1].Cmd = "PING"
         THEN <<[index |-> i, value |-> PingMessage(cs[1])]>>
              \o PreparedFrom(Tail(cs), i)
    ELSE PreparedFrom(Tail(cs), i + 1)

PreparedResponses(cs) == PreparedFrom(cs, 0)

\* ------------------------------------------- CommandReader (conn.go)
\* [multi, done]: a reader delivers one command, or every command of a
\* transaction up to and including EXEC or DISCARD, and then returns false.

NewReader == [multi |-> FALSE, done |-> FALSE]

ReaderRead(r, c) ==
    LET m == r.multi \/ c.Cmd = "MULTI"
    IN [multi |-> m, done |-> IF m THEN c.Cmd \in {"EXEC", "DISCARD"} ELSE TRUE]

\* --------------------------------------------------------------- state

VARIABLES
    pc,          \* where the connection task is
    shutdown,    \* the server's context is cancelled
    connState,   \* the state tag of the connection
    connClosed,  \* the server has closed the connection
    rmutex,      \* the read-mutex of the connection is held
    rd,          \* the command reader of this iteration
    batch,       \* the commands read in this iteration, as they arrived
    cmds,        \* the cmds slice of serveConnection
    res,         \* the responseWriter of the request
    wbuffer,     \* values encoded and not flushed
    wire,        \* what the client received in this iteration
    mark,        \* Len(wire) when serveRequest began
    prep,        \* the preparedResponseWriter of the request
    w,           \* the writer the handler is given: "base" or "prepared"
    reqCmds,     \* req.Cmds as the handler received it
    invoked,     \* calls of Handler.ServeRedis in this iteration
    ncalls,      \* calls the handler made on its writer
    err,         \* err of serveRequest
    last,        \* the last call on a writer, with the writer before it
    streamN,     \* the n of the WriteStream that succeeded, or -1
    metricConn,  \* IncConnection less DecConnection for this connection
    logged       \* what s.log has printed to the error sink

connVars ==
    <<pc, shutdown, connState, connClosed, rmutex, rd, batch, cmds,
      res, wbuffer, wire, mark, prep, w, reqCmds, invoked, ncalls, err, last,
      streamN, metricConn, logged>>

\* the Server, one listener, Serve(l) and Shutdown(ctx)
VARIABLES
    cancelled,      \* s.context is cancelled (s.shutdown was called)
    listening,      \* l is in s.listeners
    lclosed,        \* l.Close was called
    nconns,         \* len(s.connections)
    svPc,           \* where Serve is: "accept", "backoff", "returned"
    attempt,        \* attempt of Serve
    svRet,          \* what Serve returned, "none" before
    lastAccept,     \* what the last l.Accept returned and what followed
    sdPc,           \* where Shutdown is
    ctxDone,        \* the ctx given to Shutdown has expired
    sdRet,          \* what Shutdown returned, "none" before
    actorsAtExpiry  \* numberOfActors when ctx expired, -1 before

serverVars ==
    <<cancelled, listening, lclosed, nconns, svPc, attempt, svRet, lastAccept,
      sdPc, ctxDone, sdRet, actorsAtExpiry>>

\* the calls of serveCommands and the gauges of the metrics sink
VARIABLES
    enablePipeline, \* Server.EnablePipeline
    stack,          \* the calls of serveCommands in progress, innermost last
    gRequests,      \* IncRequest less DecRequest
    gCommands,      \* per command name, IncCommands less DecCommands
    returned        \* the last call of serveCommands that returned

metricsVars == <<enablePipeline, stack, gRequests, gCommands, returned>>

\* an argument list and the calls made on it
VARIABLES
    args,           \* the Args value
    argsFailed,     \* a Next on it has failed with an error
    argsLast        \* the last call on it and what it returned

argsVars == <<args, argsFailed, argsLast>>

\* the argument lists of a transaction, their connection and their caller
VARIABLES
    tx,             \* the txArgs value: mutex, conn, args, err
    txConn,         \* the Conn it is bound to: its rmutex and its Close
    txCaller        \* the program that uses it: where it is, the Args it
                    \* last got from Next if any and whether it has yet
                    \* to close it, the calls of Close that
                    \* returned, its last call, what it returned and
                    \* tx.err as the call found it

txVars == <<tx, txConn, txCaller>>

\* two hash rings and the calls made on them
VARIABLES
    rings,          \* ring A and ring B, each a vector of [token, endpoint]
    ringCall        \* the last call on them and what it returned

ringVars == <<rings, ringCall>>

vars == <<connVars, serverVars, metricsVars, argsVars, txVars, ringVars>>

\* what the connection task never touches
Elsewhere == <<serverVars, metricsVars, argsVars, txVars, ringVars>>

\* no Accept yet
NoAccept == [kind |-> "none", done |-> FALSE, before |-> 0, then |-> "none"]

\* Serve(l) has registered its listener and is about to call Accept;
\* Shutdown has not been called
ServerInit ==
    /\ cancelled = FALSE
    /\ listening = TRUE
    /\ lclosed = FALSE
    /\ nconns = 0
    /\ svPc = "accept"
    /\ attempt = 0
    /\ svRet = "none"
    /\ lastAccept = NoAccept
    /\ sdPc = "idle"
    /\ ctxDone = FALSE
    /\ sdRet = "none"
    /\ actorsAtExpiry = -1

\* the names of the commands of a request, and the lists of names that
\* serveCommands passes to IncCommands and DecCommands
CommandNames == {"SET", "PING"}

NameLists == UNION {[1 .. k -> CommandNames] : k \in 0 .. MaxNames}

NoGauges == [requests |-> 0, commands |-> [l \in NameLists |-> 0]]

NoReturn == [depth |-> 0, err |-> "none", names |-> <<>>,
             before |-> NoGauges, after |-> NoGauges]

\* no call of serveCommands in progress, no call made on the metrics sink
MetricsInit ==
    /\ enablePipeline = FALSE
    /\ stack = <<>>
    /\ gRequests = 0
    /\ gCommands = NoGauges.commands
    /\ returned = NoReturn

\* no argument list yet
NoArgsCall == [op |-> "none", ok |-> FALSE, len |-> 0]

ArgsInit ==
    /\ args = [kind |-> "none"]
    /\ argsFailed = FALSE
    /\ argsLast = NoArgsCall

\* no transaction read yet
TxCall(op, ret, pre) == [op |-> op, ret |-> ret, pre |-> pre]

NoTxCall == TxCall("none", "none", "nil")

TxInit ==
    /\ tx = [kind |-> "none"]
    /\ txConn = [rmutex |-> "unlocked", unlocks |-> 0, closes |-> 0]
    /\ txCaller = [pc |-> "ready", held |-> <<>>, open |-> FALSE,
                   closed |-> 0, last |-> NoTxCall]

\* no ring built yet
RingInit ==
    /\ rings = [A |-> <<>>, B |-> <<>>]
    /\ ringCall = [op |-> "none"]

NoCall ==
    [op |-> "none", by |-> "handler", via |-> "base", n |-> 0, err |-> "nil",
     pre |-> NewResponseWriter, preBuf |-> <<>>, preWire |-> <<>>]

Call(op, by, n, e) ==
    [op |-> op, by |-> by, via |-> w, n |-> n, err |-> e,
     pre |-> res, preBuf |-> wbuffer, preWire |-> wire]

\* serveConnection at the top of its loop for the first time, after
\* IncConnection
ConnectionInit ==
    /\ pc = "loop"
    /\ shutdown = FALSE
    /\ connState = "New"
    /\ connClosed = FALSE
    /\ rmutex = FALSE
    /\ rd = NewReader
    /\ batch = <<>>
    /\ cmds = <<>>
    /\ res = NewResponseWriter
    /\ wbuffer = <<>>
    /\ wire = <<>>
    /\ mark = 0
    /\ prep = NewPrepared
    /\ w = "base"
    /\ reqCmds = <<>>
    /\ invoked = 0
    /\ ncalls = 0
    /\ err = "nil"
    /\ last = NoCall
    /\ streamN = -1
    /\ metricConn = 1
    /\ logged = <<>>

\* ------------------------------------------------- the connection task

\* what one iteration of the loop of serveConnection starts from; the
\* request, its writers and the record of what the client received in the
\* iteration do not outlive it
FreshIteration ==
    /\ batch' = <<>>
    /\ cmds' = <<>>
    /\ res' = NewResponseWriter
    /\ wbuffer' = <<>>
    /\ wire' = <<>>
    /\ mark' = 0
    /\ prep' = NewPrepared
    /\ w' = "base"
    /\ reqCmds' = <<>>
    /\ invoked' = 0
    /\ ncalls' = 0
    /\ err' = "nil"
    /\ last' = NoCall
    /\ streamN' = -1

Request == <<res, wbuffer, wire, mark, prep, w, reqCmds, invoked, ncalls, err,
             last, streamN>>

\* s.log(err): ErrHijacked and ErrNotPipeline are not printed
logPrintsAll(sink, e) == Append(sink, e)

log(sink, e) ==
    IF e = "ErrHijacked" \/ e = "ErrNotPipeline" THEN sink
    ELSE Append(sink, e)

\* the deferred calls of serveConnection without c.Close
TeardownLeavesOpen(to) ==
    /\ pc' = to
    /\ connClosed' = connClosed
    /\ connState' = "Closed"
    /\ metricConn' = metricConn - 1

\* the deferred calls of serveConnection, which also run when the task
\* panics: DecConnection, then cancel, c.Close, setState(Closed)
Teardown(to) ==
    /\ pc' = to
    /\ connClosed' = TRUE
    /\ connState' = "Closed"
    /\ metricConn' = metricConn - 1

\* s.shutdown(): the Server's context is cancelled (Close and Shutdown)
FireShutdown ==
    /\ pc \notin {"exited", "crashed"}
    /\ ~shutdown
    /\ shutdown' = TRUE
    /\ UNCHANGED <<pc, connState, connClosed, rmutex, rd, batch, cmds>>
    /\ UNCHANGED Request
    /\ UNCHANGED <<metricConn, logged, Elsewhere>>

\* top of the loop: ctx is done
CtxDone ==
    /\ pc = "loop"
    /\ shutdown
    /\ Teardown("exited")
    /\ FreshIteration
    /\ UNCHANGED <<shutdown, rmutex, rd>>
    /\ UNCHANGED <<logged, Elsewhere>>

\* waitReadyRead returns an error: idle timeout or end of stream
WaitReadyReadFail ==
    /\ pc = "loop"
    /\ ~shutdown
    /\ Teardown("exited")
    /\ FreshIteration
    /\ UNCHANGED <<shutdown, rmutex, rd>>
    /\ UNCHANGED <<logged, Elsewhere>>

\* waitReadyRead returns nil: a byte of the next command is there
WaitReadyRead ==
    /\ pc = "loop"
    /\ ~shutdown
    /\ pc' = "read"
    /\ connState' = "Active"
    /\ FreshIteration
    /\ UNCHANGED <<shutdown, connClosed, rmutex, rd>>
    /\ UNCHANGED <<metricConn, logged, Elsewhere>>

\* c.ReadCommands takes the read-mutex; cmdReader.Read(&cmds[0]) succeeds
ReadFirst ==
    /\ pc = "read"
    /\ ~rmutex
    /\ Len(batch) < MaxCmds
    /\ \E c \in Commands :
         /\ rd' = ReaderRead(NewReader, c)
         /\ batch' = <<c>>
         /\ cmds' = <<c>>
         /\ pc' = IF c.Cmd = "MULTI" THEN "multi" ELSE "serve"
    /\ rmutex' = TRUE
    /\ UNCHANGED <<shutdown, connState, connClosed>>
    /\ UNCHANGED Request
    /\ UNCHANGED <<metricConn, logged, Elsewhere>>

\* what cmdReader.Close returns after a Read that returned false
ReaderCloseErrors == {"nil", "EOF"}

\* cmdReader.Read(&cmds[0]) returns false: s.log(cmdReader.Close()), return
ReadFirstFail ==
    /\ pc = "read"
    /\ ~rmutex
    /\ Teardown("exited")
    /\ \E e \in ReaderCloseErrors : logged' = log(logged, e)
    /\ UNCHANGED <<shutdown, rmutex, rd, batch, cmds>>
    /\ UNCHANGED Request
    /\ UNCHANGED Elsewhere

\* the acknowledgement written at the top of the transaction loop, where
\* lastIndex is len(cmds)
Ack(lastIndex) == IF lastIndex = 0 THEN "OK" ELSE "QUEUED"

\* one turn of the transaction loop in which Read returns a command
MultiRead ==
    /\ pc = "multi"
    /\ ~rd.done
    /\ Len(batch) < MaxCmds
    /\ wire' = Append(wire, Val(Ack(Len(cmds))))
    /\ \E c \in Commands :
         /\ rd' = ReaderRead(rd, c)
         /\ batch' = Append(batch, c)
         /\ cmds' = Append(cmds, c)
    /\ UNCHANGED <<pc, shutdown, connState, connClosed, rmutex>>
    /\ UNCHANGED <<res, wbuffer, mark, prep, w, reqCmds, invoked, ncalls, err,
                   last, streamN>>
    /\ UNCHANGED <<metricConn, logged, Elsewhere>>

\* cmds = cmds[1:lastIndex] with lastIndex = len(cmds) - 1
TrimKeepLast(cs) == SubSeq(cs, 2, Len(cs))

Trim(cs) == SubSeq(cs, 2, Len(cs) - 1)

\* the turn of the transaction loop in which Read returns false, and the
\* code after the loop
EndOfTransaction ==
    /\ pc = "multi"
    /\ LET acked == Append(wire, Val(Ack(Len(cmds))))
       IN IF cmds[Len(cmds)].Cmd = "DISCARD"
          THEN \* Args.Close, WriteArgs(List("OK")), continue
               /\ wire' = Append(acked, Val("OK"))
               /\ pc' = "loop"
               /\ UNCHANGED <<cmds, connState, connClosed, metricConn>>
          ELSE IF Len(cmds) - 1 < 1
          THEN \* cmds[1:0]: slice bounds out of range, the goroutine panics
               /\ wire' = acked
               /\ Teardown("crashed")
               /\ UNCHANGED cmds
          ELSE /\ wire' = acked
               /\ cmds' = Trim(cmds)
               /\ pc' = "serve"
               /\ UNCHANGED <<connState, connClosed, metricConn>>
    /\ UNCHANGED <<shutdown, rmutex, rd, batch>>
    /\ UNCHANGED <<res, wbuffer, mark, prep, w, reqCmds, invoked, ncalls, err,
                   last, streamN>>
    /\ UNCHANGED <<logged, Elsewhere>>

\* Read returns false after EXEC or DISCARD
MultiEnd ==
    /\ rd.done
    /\ EndOfTransaction

\* Read returns false before EXEC or DISCARD: the connection failed
MultiReadFail ==
    /\ ~rd.done
    /\ EndOfTransaction

\* ---------------------------------------------------- end of a request
\* What follows the handler without a suspension point: the rest of
\* serveRequest (writeRemainingValues, res.Flush), the return of
\* serveCommands, and in serveConnection either s.log(err) and return, or
\* cmdReader.Close and setState(Idle). r is the state of the writers and e
\* the error of serveRedis when the handler is left; via is the writer in use.

FinishFails(e) == e # "nil"

Finish(r, e, via, call) ==
    LET r1 == IF e = "nil" /\ via = "prepared"
              THEN writeRemainingValues(r.prep, r.res, r.wbuffer, r.wire)
              ELSE PRet(r.prep, Ret(r.res, r.wbuffer, r.wire, e))
        r2 == IF r1.err = "nil"
              THEN PRet(r1.prep, Flush(r1.res, r1.wbuffer, r1.wire))
              ELSE r1
    IN /\ res' = r2.res
       /\ wbuffer' = r2.wbuffer
       /\ wire' = r2.wire
       /\ prep' = r2.prep
       /\ err' = r2.err
       /\ last' = IF r1.err = "nil"
                  THEN [op |-> "Flush", by |-> "server", via |-> "base",
                        n |-> 0, err |-> r2.err, pre |-> r1.res,
                        preBuf |-> r1.wbuffer, preWire |-> r1.wire]
                  ELSE call
       /\ IF FinishFails(r2.err)
          THEN /\ Teardown("exited")
               /\ logged' = log(logged, r2.err)
               /\ UNCHANGED rmutex
          ELSE /\ pc' = "loop"
               /\ connState' = "Idle"
               /\ rmutex' = FALSE
               /\ UNCHANGED <<connClosed, metricConn, logged>>
       /\ UNCHANGED Elsewhere

Writers == [prep |-> prep, res |-> res, wbuffer |-> wbuffer, wire |-> wire,
            err |-> "nil"]

\* serveCommands up to the call of the handler in serveRequest; a request
\* left with no command is finished without the handler
ServeRequest ==
    /\ pc = "serve"
    /\ LET prepared == PreparedResponses(cmds)
           user == UserCommands(cmds)
           p == [index |-> 0, responses |-> prepared]
           via == IF prepared # <<>> THEN "prepared" ELSE "base"
           r == IF prepared # <<>>
                THEN preparedWriteStream(p, NewResponseWriter, wbuffer, wire,
                                         Len(cmds) + Len(prepared))
                ELSE PRet(NewPrepared, Ret(NewResponseWriter, wbuffer, wire, "nil"))
       IN /\ w' = via
          /\ streamN' = IF r.res.wtype = "stream" THEN r.res.remain ELSE -1
          /\ cmds' = user
          /\ reqCmds' = user
          /\ IF user # <<>>
             THEN /\ pc' = "handler"
                  /\ invoked' = invoked + 1
                  /\ prep' = r.prep
                  /\ res' = r.res
                  /\ wbuffer' = r.wbuffer
                  /\ wire' = r.wire
                  /\ UNCHANGED <<connState, connClosed, rmutex, err, last>>
                  /\ UNCHANGED <<metricConn, logged, Elsewhere>>
             ELSE /\ invoked' = invoked
                  /\ Finish(r, "nil", via, last)
    /\ mark' = Len(wire)
    /\ UNCHANGED <<shutdown, rd, batch, ncalls>>

\* ------------------------------------------------------------ the handler
\* Handler.ServeRedis(w, req) is any sequence of at most MaxCalls calls on w,
\* ended by a return or a panic.

InHandler ==
    /\ pc = "handler"
    /\ ncalls < MaxCalls

\* the state after a call on the handler's writer that returned r
Returned(r, call) ==
    /\ res' = r.res
    /\ wbuffer' = r.wbuffer
    /\ wire' = r.wire
    /\ prep' = r.prep
    /\ last' = call
    /\ ncalls' = ncalls + 1
    /\ UNCHANGED <<pc, shutdown, connState, connClosed, rmutex, rd,
                   batch, cmds, mark, w, reqCmds, invoked, err>>
    /\ UNCHANGED <<metricConn, logged, Elsewhere>>

HandlerWriteStream ==
    /\ InHandler
    /\ \E n \in -1 .. MaxStream :
         LET r == IF w = "prepared"
                  THEN preparedWriteStream(prep, res, wbuffer, wire, n)
                  ELSE PRet(prep, WriteStream(res, wbuffer, wire, n))
         IN /\ Returned(r, Call("WriteStream", "handler", n, r.err))
            /\ streamN' = IF r.err = "nil" THEN n ELSE streamN

HandlerWrite ==
    /\ InHandler
    /\ \E v \in HandlerValues :
         LET r == IF w = "prepared"
                  THEN preparedWrite(prep, res, wbuffer, wire, v)
                  ELSE PRet(prep, Write(res, wbuffer, wire, v))
         IN Returned(r, Call("Write", "handler", 0, r.err))
    /\ UNCHANGED streamN

HandlerFlush ==
    /\ InHandler
    /\ LET r == IF w = "prepared"
                THEN preparedFlush(prep, res, wbuffer, wire)
                ELSE PRet(prep, Flush(res, wbuffer, wire))
       IN Returned(r, Call("Flush", "handler", 0, r.err))
    /\ UNCHANGED streamN

\* a panic raised in Hijack unwinds the handler into the recover of
\* serveRedis, which returns it as the error of the request
HandlerHijack ==
    /\ InHandler
    /\ \E outcome \in SetStateOnNilConn :
         LET r == IF w = "prepared"
                  THEN preparedHijack(prep, res, wbuffer, wire, outcome)
                  ELSE PRet(prep, Hijack(res, wbuffer, wire, outcome))
             call == Call("Hijack", "handler", 0, r.err)
         IN IF r.err = "panic"
            THEN /\ Finish(r, "panic", w, call)
                 /\ ncalls' = ncalls + 1
                 /\ UNCHANGED <<shutdown, rd, batch, cmds, mark, w,
                                reqCmds, invoked>>
            ELSE Returned(r, call)
    /\ UNCHANGED streamN

\* what a handler panics with: a value that is no error, or an error,
\* here the one a call on a hijacked writer gave it
PanicValues == {"value", "ErrHijacked"}

\* an error is returned as it is; "panic" stands for the error
\* "recovered from redis handler: <v>" made of any other value
convertPanicToError(v) == IF v = "value" THEN "panic" ELSE v

\* the handler panics: serveRedis recovers and returns the error
HandlerPanic ==
    /\ pc = "handler"
    /\ \E v \in PanicValues :
         Finish(Writers, convertPanicToError(v), w,
                Call("panic", "handler", 0, convertPanicToError(v)))
    /\ UNCHANGED <<shutdown, rd, batch, cmds, mark, w, reqCmds, invoked,
                   ncalls, streamN>>

HandlerReturn ==
    /\ pc = "handler"
    /\ Finish(Writers, "nil", w, last)
    /\ UNCHANGED <<shutdown, rd, batch, cmds, mark, w, reqCmds, invoked,
                   ncalls, streamN>>

Next ==
    \/ FireShutdown
    \/ CtxDone
    \/ WaitReadyReadFail
    \/ WaitReadyRead
    \/ ReadFirst
    \/ ReadFirstFail
    \/ MultiRead
    \/ MultiEnd
    \/ MultiReadFail
    \/ ServeRequest
    \/ HandlerWriteStream
    \/ HandlerWrite
    \/ HandlerFlush
    \/ HandlerHijack
    \/ HandlerPanic
    \/ HandlerReturn


\* ---------------------------------- a handler that answers every command
\* Handler.ServeRedis writes one value for each command of req.Cmds, in
\* order, whatever the writes return, and returns.

HandlerWritesReply ==
    /\ ncalls < Len(reqCmds)
    /\ HandlerWrite

HandlerReturnsDone ==
    /\ ncalls = Len(reqCmds)
    /\ HandlerReturn

PingNext ==
    \/ WaitReadyRead
    \/ ReadFirst
    \/ MultiRead
    \/ MultiEnd
    \/ ServeRequest
    \/ HandlerWritesReply
    \/ HandlerReturnsDone

\* ------------------------------------------------------------ the Server
\* One listener l with Serve(l) running, the connections Serve has
\* accepted, and one caller of Shutdown(ctx). A connection is in
\* s.connections from the moment Serve accepts it until its task has
\* closed it.

\* what the Server machine never touches
ServerElsewhere == <<connVars, metricsVars, argsVars, txVars, ringVars>>

\* what l.Accept returns beside a connection; the two predicates are the
\* Timeout() and Temporary() of the error
AcceptErrors == {"timeout", "temporary", "timeoutTemporary", "other"}

isTimeout(e) == e \in {"timeout", "timeoutTemporary"}

isTemporary(e) == e \in {"temporary", "timeoutTemporary"}

\* what Serve does with an error of Accept, done telling whether
\* s.context is cancelled
OnAcceptErrorNoShutdownCheck(e, done) ==
    IF isTimeout(e) THEN "continue"
    ELSE IF isTemporary(e) THEN "backoff"
    ELSE "return"

OnAcceptError(e, done) ==
    IF done THEN "ErrServerClosed"
    ELSE IF isTimeout(e) THEN "continue"
    ELSE IF isTemporary(e) THEN "backoff"
    ELSE "return"

numberOfActors == nconns + (IF listening THEN 1 ELSE 0)

\* Serve returns e: the deferred untrackListener(l) and l.Close()
ServeReturns(e) ==
    /\ svPc' = "returned"
    /\ svRet' = e
    /\ listening' = FALSE
    /\ lclosed' = TRUE

\* l.Accept returns a connection: attempt = 0, NewServerConn, setState(New),
\* go s.serveConnection
AcceptConn ==
    /\ svPc = "accept"
    /\ ~lclosed
    /\ nconns < MaxConns
    /\ attempt' = 0
    /\ nconns' = nconns + 1
    /\ lastAccept' = [kind |-> "conn", done |-> cancelled, before |-> attempt,
                      then |-> "continue"]
    /\ UNCHANGED <<cancelled, listening, lclosed, svPc, svRet, sdPc, ctxDone,
                   sdRet, actorsAtExpiry>>
    /\ UNCHANGED ServerElsewhere

\* l.Accept returns an error; a closed listener returns one that is neither
\* a timeout nor temporary
AcceptError ==
    /\ svPc = "accept"
    /\ \E e \in AcceptErrors :
         LET then == OnAcceptError(e, cancelled)
         IN /\ lclosed => e = "other"
            /\ then = "backoff" => attempt < MaxAttempt
            /\ lastAccept' = [kind |-> e, done |-> cancelled,
                              before |-> attempt, then |-> then]
            /\ IF then = "ErrServerClosed"
               THEN ServeReturns("ErrServerClosed") /\ UNCHANGED attempt
               ELSE IF then = "return"
               THEN ServeReturns(e) /\ UNCHANGED attempt
               ELSE IF then = "backoff"
               THEN /\ attempt' = attempt + 1
                    /\ svPc' = "backoff"
                    /\ UNCHANGED <<svRet, listening, lclosed>>
               ELSE UNCHANGED <<attempt, svPc, svRet, listening, lclosed>>
    /\ UNCHANGED <<cancelled, nconns, sdPc, ctxDone, sdRet, actorsAtExpiry>>
    /\ UNCHANGED ServerElsewhere

\* the select of the back-off: time.After fires
BackoffTimer ==
    /\ svPc = "backoff"
    /\ svPc' = "accept"
    /\ UNCHANGED <<cancelled, listening, lclosed, nconns, attempt, svRet,
                   lastAccept, sdPc, ctxDone, sdRet, actorsAtExpiry>>
    /\ UNCHANGED ServerElsewhere

\* the select of the back-off: s.context is done
BackoffShutdown ==
    /\ svPc = "backoff"
    /\ cancelled
    /\ ServeReturns("ErrServerClosed")
    /\ UNCHANGED <<cancelled, nconns, attempt, lastAccept, sdPc, ctxDone,
                   sdRet, actorsAtExpiry>>
    /\ UNCHANGED ServerElsewhere

\* the task of a connection returns and the connection leaves s.connections
ConnectionExits ==
    /\ nconns > 0
    /\ nconns' = nconns - 1
    /\ UNCHANGED <<cancelled, listening, lclosed, svPc, attempt, svRet,
                   lastAccept, sdPc, ctxDone, sdRet, actorsAtExpiry>>
    /\ UNCHANGED ServerElsewhere

\* Server.Close: s.shutdown(), every listener and connection closed
ServerClose ==
    /\ ~cancelled
    /\ cancelled' = TRUE
    /\ lclosed' = TRUE
    /\ UNCHANGED <<listening, nconns, svPc, attempt, svRet, lastAccept, sdPc,
                   ctxDone, sdRet, actorsAtExpiry>>
    /\ UNCHANGED ServerElsewhere

\* the ctx given to Shutdown expires
CtxExpires ==
    /\ ~ctxDone
    /\ ctxDone' = TRUE
    /\ actorsAtExpiry' = numberOfActors
    /\ UNCHANGED <<cancelled, listening, lclosed, nconns, svPc, attempt,
                   svRet, lastAccept, sdPc, sdRet>>
    /\ UNCHANGED ServerElsewhere

\* Shutdown, under s.mutex: s.shutdown() and l.Close() for every listener
ShutdownBegin ==
    /\ sdPc = "idle"
    /\ sdPc' = "poll"
    /\ cancelled' = TRUE
    /\ lclosed' = TRUE
    /\ UNCHANGED <<listening, nconns, svPc, attempt, svRet, lastAccept,
                   ctxDone, sdRet, actorsAtExpiry>>
    /\ UNCHANGED ServerElsewhere

\* the condition of the for loop: s.numberOfActors() != 0
ShutdownPoll ==
    /\ sdPc = "poll"
    /\ sdPc' = IF numberOfActors # 0 THEN "select" ELSE "return"
    /\ UNCHANGED <<cancelled, listening, lclosed, nconns, svPc, attempt,
                   svRet, lastAccept, ctxDone, sdRet, actorsAtExpiry>>
    /\ UNCHANGED ServerElsewhere

\* the select of the loop takes case <-ctx.Done(): its body is empty and
\* the loop goes on to its condition
ShutdownWakeCtx ==
    /\ sdPc = "select"
    /\ ctxDone
    /\ sdPc' = "poll"
    /\ UNCHANGED <<cancelled, listening, lclosed, nconns, svPc, attempt,
                   svRet, lastAccept, ctxDone, sdRet, actorsAtExpiry>>
    /\ UNCHANGED ServerElsewhere

\* the select of the loop takes case <-time.After(backoff(i, ..))
ShutdownWakeTimer ==
    /\ sdPc = "select"
    /\ sdPc' = "poll"
    /\ UNCHANGED <<cancelled, listening, lclosed, nconns, svPc, attempt,
                   svRet, lastAccept, ctxDone, sdRet, actorsAtExpiry>>
    /\ UNCHANGED ServerElsewhere

\* return ctx.Err()
ShutdownResultNil(done) == "nil"

ShutdownResult(done) == IF done THEN "ctx.Err" ELSE "nil"

ShutdownReturn ==
    /\ sdPc = "return"
    /\ sdPc' = "returned"
    /\ sdRet' = ShutdownResult(ctxDone)
    /\ UNCHANGED <<cancelled, listening, lclosed, nconns, svPc, attempt,
                   svRet, lastAccept, ctxDone, actorsAtExpiry>>
    /\ UNCHANGED ServerElsewhere

ServerNext ==
    \/ AcceptConn
    \/ AcceptError
    \/ BackoffTimer
    \/ BackoffShutdown
    \/ ConnectionExits
    \/ ServerClose
    \/ CtxExpires
    \/ ShutdownBegin
    \/ ShutdownPoll
    \/ ShutdownWakeCtx
    \/ ShutdownWakeTimer
    \/ ShutdownReturn

\* the goroutine of Shutdown keeps running, and so does the one of Serve
\* once its listener is closed: Accept on a closed listener returns
ServerFairness ==
    /\ WF_vars(ShutdownPoll)
    /\ WF_vars(ShutdownWakeTimer)
    /\ WF_vars(ShutdownReturn)
    /\ WF_vars(lclosed /\ AcceptError)
    /\ WF_vars(BackoffTimer)

\* --------------------------------------- serveCommands and the metrics
\* The calls of serveCommands in progress: the one made by the connection
\* task and those servePipeline makes inside it. A call is
\* [names, pc, err, before]: the names it computed on entry, where it is,
\* its err, and the gauges as it found them. serveRequest and req.Close
\* return any error or none; Command.pipeCommand gives a follow-up command,
\* ErrNotPipeline or another error.

MetricsElsewhere ==
    <<connVars, serverVars, argsVars, txVars, ringVars>>

\* Server.EnablePipeline is set before Serve and not changed
MetricsStart ==
    /\ enablePipeline \in BOOLEAN
    /\ stack = <<>>
    /\ gRequests = 0
    /\ gCommands = NoGauges.commands
    /\ returned = NoReturn

RequestErrors == {"nil", "error"}

CloseErrors == {"nil", "error"}

PipeErrors == {"ErrNotPipeline", "error"}

Gauges == [requests |-> gRequests, commands |-> gCommands]

IncCommands(g, names) == [g EXCEPT ![names] = @ + 1]

DecCommands(g, names) == [g EXCEPT ![names] = @ - 1]

\* the names of the commands serveRequest leaves in req.Cmds
NamesOfRequest(f) == SelectSeq(f.names, LAMBDA n : n # "PING")

\* the names serveCommands passes to DecCommands: those it computed on entry
NamesAtReturn(f) == f.names

Top == stack[Len(stack)]

SetTop(f) == [stack EXCEPT ![Len(stack)] = f]

\* serveCommands is entered with cmds: names, IncRequest, IncCommands
Enter(names) ==
    /\ stack' = Append(stack, [names |-> names, pc |-> "request",
                               err |-> "nil", before |-> Gauges])
    /\ gRequests' = gRequests + 1
    /\ gCommands' = IncCommands(gCommands, names)

\* the connection task calls serveCommands
ServeCommands ==
    /\ stack = <<>>
    /\ \E names \in NameLists : Enter(names)
    /\ UNCHANGED <<enablePipeline, returned>>
    /\ UNCHANGED MetricsElsewhere

\* serveRequest and req.Close have returned: is this a pipeline?
RequestServed ==
    /\ stack # <<>>
    /\ Top.pc = "request"
    /\ \E e \in RequestErrors, reqErr \in CloseErrors :
         stack' = SetTop([Top EXCEPT
                     !.err = e,
                     !.pc = IF enablePipeline /\ e = "nil" /\ reqErr = "nil"
                            THEN "pipeline" ELSE "return"])
    /\ UNCHANGED <<enablePipeline, gRequests, gCommands, returned>>
    /\ UNCHANGED MetricsElsewhere

\* err of serveCommands once servePipeline has returned pipeErr
AfterPipeline(e, pipeErr) == IF pipeErr # "ErrNotPipeline" THEN pipeErr ELSE e

\* servePipeline returns without a call of serveCommands: a pipeCommand
\* returned an error, or there was no command
PipelineReturns ==
    /\ stack # <<>>
    /\ Top.pc = "pipeline"
    /\ \E pipeErr \in (IF Top.names = <<>> THEN {"nil"} ELSE PipeErrors) :
         stack' = SetTop([Top EXCEPT !.err = AfterPipeline(@, pipeErr),
                                     !.pc = "return"])
    /\ UNCHANGED <<enablePipeline, gRequests, gCommands, returned>>
    /\ UNCHANGED MetricsElsewhere

\* every pipeCommand gave a follow-up: servePipeline calls serveCommands
PipelineFollowUp ==
    /\ stack # <<>>
    /\ Top.pc = "pipeline"
    /\ Top.names # <<>>
    /\ Len(stack) < MaxDepth
    /\ \E names \in [1 .. Len(Top.names) -> CommandNames] :
         /\ stack' = Append(SetTop([Top EXCEPT !.pc = "nested"]),
                            [names |-> names, pc |-> "request",
                             err |-> "nil", before |-> Gauges])
         /\ gRequests' = gRequests + 1
         /\ gCommands' = IncCommands(gCommands, names)
    /\ UNCHANGED <<enablePipeline, returned>>
    /\ UNCHANGED MetricsElsewhere

\* the end of serveCommands: DecRequest, DecCommands, return err; a call
\* made by servePipeline hands its err to the call that waits for it
Return ==
    /\ stack # <<>>
    /\ Top.pc = "return"
    /\ LET f == Top
           below == SubSeq(stack, 1, Len(stack) - 1)
           after == [requests |-> gRequests - 1,
                     commands |-> DecCommands(gCommands, NamesAtReturn(f))]
       IN /\ gRequests' = after.requests
          /\ gCommands' = after.commands
          /\ returned' = [depth |-> Len(stack), err |-> f.err,
                          names |-> f.names, before |-> f.before,
                          after |-> after]
          /\ stack' = IF below = <<>> THEN below
                      ELSE [below EXCEPT ![Len(below)] =
                              [@ EXCEPT !.err = AfterPipeline(@, f.err),
                                        !.pc = "return"]]
    /\ UNCHANGED enablePipeline
    /\ UNCHANGED MetricsElsewhere

MetricsNext ==
    \/ ServeCommands
    \/ RequestServed
    \/ PipelineReturns
    \/ PipelineFollowUp
    \/ Return

\* ------------------------------------------------------- Args (args.go)
\* byteArgs is [kind, args, err], argsList [kind, dec, err] with dec the
\* values its decoder has not read, argsError [kind, err], and multiArgs
\* [kind, args, argn, err] over lists of the other three kinds.

ArgsElsewhere ==
    <<connVars, serverVars, metricsVars, txVars, ringVars>>

\* raw arguments: one that parses as an integer and one that does not
Bytes == {"1", "x"}

\* what an argsList decodes: a value, or an error sent in place of one
Decoded == {"value", "resp.Error"}

\* the types of the destinations given to Next
Dsts == {"int", "string"}

SeqsUpTo(S, n) == UNION {[1 .. k -> S] : k \in 0 .. n}

NewByteArgs(bs) == [kind |-> "bytes", args |-> bs, err |-> "nil"]

List(vs) == [kind |-> "list", dec |-> vs, err |-> "nil"]

newArgsError(e) == [kind |-> "error", err |-> e]

MultiArgs(as) == [kind |-> "multi", args |-> as, argn |-> 0, err |-> "nil"]

Leaves ==
    {NewByteArgs(bs) : bs \in SeqsUpTo(Bytes, MaxArgs)}
    \cup {List(vs) : vs \in SeqsUpTo(Decoded, MaxArgs)}
    \cup {newArgsError("error")}

NextRet(a, ok) == [args |-> a, ok |-> ok]

CloseRet(a, e) == [args |-> a, err |-> e]

\* byteArgs.next: parseInt fails on what is no integer, parseString never
byteParse(dst, b) ==
    IF dst = "int" /\ b # "1" THEN "strconv.ErrSyntax" ELSE "nil"

byteNext(a, dst) ==
    IF a.args = <<>> \/ a.err # "nil" THEN NextRet(a, FALSE)
    ELSE LET e == byteParse(dst, a.args[1])
         IN NextRet([a EXCEPT !.args = Tail(@), !.err = e], e = "nil")

byteLen(a) == Len(a.args)

byteClose(a) == CloseRet([a EXCEPT !.args = <<>>], a.err)

listNext(a, dst) ==
    IF a.err # "nil" THEN NextRet(a, FALSE)
    ELSE IF a.dec # <<>> /\ a.dec[1] = "resp.Error"
         THEN NextRet([a EXCEPT !.dec = Tail(@), !.err = "resp.Error"], FALSE)
    ELSE IF a.dec = <<>> THEN NextRet(a, FALSE)
    ELSE NextRet([a EXCEPT !.dec = Tail(@)], TRUE)

listLen(a) == IF a.err # "nil" THEN 0 ELSE Len(a.dec)

listClose(a) == CloseRet([a EXCEPT !.dec = <<>>], a.err)

leafNext(a, dst) ==
    IF a.kind = "bytes" THEN byteNext(a, dst)
    ELSE IF a.kind = "list" THEN listNext(a, dst)
    ELSE NextRet(a, FALSE)

leafLen(a) ==
    IF a.kind = "bytes" THEN byteLen(a)
    ELSE IF a.kind = "list" THEN listLen(a)
    ELSE 0

leafClose(a) ==
    IF a.kind = "bytes" THEN byteClose(a)
    ELSE IF a.kind = "list" THEN listClose(a)
    ELSE CloseRet(a, a.err)

\* the loop of multiArgs.Next from m.argn on
RECURSIVE multiLoop(_, _)
multiLoop(m, dst) ==
    LET i == m.argn + 1
        r == leafNext(m.args[i], dst)
    IN IF r.ok THEN NextRet([m EXCEPT !.args[i] = r.args], TRUE)
       ELSE LET c == leafClose(r.args)
                m1 == [m EXCEPT !.args[i] = c.args]
            IN IF c.err # "nil" THEN NextRet([m1 EXCEPT !.err = c.err], FALSE)
               ELSE IF m.argn + 1 >= Len(m.args)
                    THEN NextRet([m1 EXCEPT !.argn = @ + 1], FALSE)
               ELSE multiLoop([m1 EXCEPT !.argn = @ + 1], dst)

multiNext(m, dst) ==
    IF m.argn >= Len(m.args) \/ m.err # "nil" THEN NextRet(m, FALSE)
    ELSE multiLoop(m, dst)

RECURSIVE SumLen(_)
SumLen(as) == IF as = <<>> THEN 0 ELSE leafLen(as[1]) + SumLen(Tail(as))

multiLen(m) == IF m.err = "nil" THEN SumLen(m.args) ELSE 0

RECURSIVE FirstCloseError(_)
FirstCloseError(as) ==
    IF as = <<>> THEN "nil"
    ELSE IF leafClose(as[1]).err # "nil" THEN leafClose(as[1]).err
    ELSE FirstCloseError(Tail(as))

multiClose(m) ==
    CloseRet([m EXCEPT !.args = [i \in 1 .. Len(m.args) |->
                                  leafClose(m.args[i]).args]],
             IF m.err # "nil" THEN m.err ELSE FirstCloseError(m.args))

\* Args.Next, Args.Len, Args.Close by the type of the value
argsNext(a, dst) ==
    IF a.kind = "multi" THEN multiNext(a, dst) ELSE leafNext(a, dst)

argsLen(a) == IF a.kind = "multi" THEN multiLen(a) ELSE leafLen(a)

argsClose(a) == IF a.kind = "multi" THEN multiClose(a) ELSE leafClose(a)

\* the error an argument list holds, "nil" if none
argsErr(a) == a.err

\* an argument list is made
MakeLeaf ==
    /\ args.kind = "none"
    /\ \E a \in Leaves : args' = a
    /\ argsLast' = [op |-> "new", ok |-> TRUE, len |-> 0]
    /\ UNCHANGED argsFailed
    /\ UNCHANGED ArgsElsewhere

MakeMultiArgs ==
    /\ args.kind = "none"
    /\ \E as \in SeqsUpTo(Leaves, MaxLists) : args' = MultiArgs(as)
    /\ argsLast' = [op |-> "new", ok |-> TRUE, len |-> 0]
    /\ UNCHANGED argsFailed
    /\ UNCHANGED ArgsElsewhere

\* args.Next(dst); it has failed with an error when it returns false and
\* the list holds an error it did not hold before
ArgsNext ==
    /\ args.kind # "none"
    /\ \E dst \in Dsts :
         LET r == argsNext(args, dst)
         IN /\ args' = r.args
            /\ argsLast' = [op |-> "Next", ok |-> r.ok, len |-> argsLen(r.args)]
            /\ argsFailed' = (argsFailed \/ (~r.ok /\ argsErr(r.args) # "nil"
                                                   /\ argsErr(args) = "nil"))
    /\ UNCHANGED ArgsElsewhere

ArgsClose ==
    /\ args.kind # "none"
    /\ args' = argsClose(args).args
    /\ argsLast' = [op |-> "Close", ok |-> argsClose(args).err = "nil",
                    len |-> argsLen(argsClose(args).args)]
    /\ UNCHANGED argsFailed
    /\ UNCHANGED ArgsElsewhere

\* the loop of ParseArgs over dsts: the list as the loop leaves it and
\* the destinations a value was read into
RECURSIVE parseLoop(_, _, _)
parseLoop(a, dsts, n) ==
    IF dsts = <<>> THEN [args |-> a, read |-> n]
    ELSE LET r == argsNext(a, dsts[1])
         IN IF ~r.ok THEN [args |-> r.args, read |-> n]
            ELSE parseLoop(r.args, Tail(dsts), n + 1)

\* ParseArgs(args, dsts...); args of kind "none" is the nil Args, on which
\* args.Close() is a call on a nil interface. Int(args) and Int64(args)
\* are ParseArgs with one destination of type int, String(args) with one
\* of type string.
ParseArgs(a, dsts) ==
    IF a.kind = "none" /\ dsts # <<>>
    THEN [args |-> a, err |-> "ErrNilArgs", read |-> 0]
    ELSE IF a.kind = "none"
    THEN [args |-> a, err |-> "panic", read |-> 0]
    ELSE LET l == parseLoop(a, dsts, 0)
             c == argsClose(l.args)
         IN [args |-> c.args, err |-> c.err, read |-> l.read]

ParseCall(a, dsts) ==
    LET r == ParseArgs(a, dsts)
    IN [op |-> "ParseArgs", ok |-> r.err = "nil",
        len |-> IF a.kind = "none" THEN 0 ELSE argsLen(r.args),
        given |-> a, dsts |-> dsts, read |-> r.read, err |-> r.err]

\* ParseArgs is called on the list, or on nil when there is none
ArgsParse ==
    /\ \E dsts \in SeqsUpTo(Dsts, MaxDsts) :
         /\ args' = ParseArgs(args, dsts).args
         /\ argsLast' = ParseCall(args, dsts)
    /\ UNCHANGED argsFailed
    /\ UNCHANGED ArgsElsewhere

ArgsStep ==
    \/ MakeLeaf
    \/ MakeMultiArgs
    \/ ArgsNext
    \/ ArgsClose
    \/ ArgsParse

\* ------------------------------------------------------ txArgs (args.go)
\* A txArgs is [mutex, conn, args, err]: mutex is TRUE while locked, conn is
\* TRUE while tx.conn is not nil, args are the lists Next has not handed
\* out, each [list, closed]. One program calls Next, Len and Close on it
\* and closes the lists Next gave it; a call that finds the mutex locked
\* never returns, for no one else unlocks it.

TxElsewhere ==
    <<connVars, serverVars, metricsVars, argsVars, ringVars>>

\* errors that are a *resp.Error, and errors that are not
RespErrors == {"ERR a", "ERR b"}

FatalErrors == {"EOF", "timeout"}

\* the test err.(*resp.Error) of txArgs.Close
isStable(e) == e \in RespErrors

Kid(a) == [list |-> a, closed |-> FALSE]

\* the lists of a transaction: one that closes without error, and one for
\* each error a Close can return
Kids ==
    {Kid(List(<<"value">>))}
    \cup {Kid(newArgsError(e)) : e \in RespErrors \cup FatalErrors}

\* arg.Close() on one list of the transaction
kidClose(k) ==
    [k EXCEPT !.list = leafClose(k.list).args, !.closed = TRUE]

kidErr(k) == leafClose(k.list).err

\* Conn.ReadTxArgs: the read-mutex of the connection is taken and the
\* lists of the reply are bound to the connection
ReadTxArgs(kids) ==
    [kind |-> "tx", mutex |-> FALSE, conn |-> TRUE, args |-> kids,
     err |-> "nil"]

\* a list Next handed out is closed: the next call on the txArgs may go on
kidReleases(t) == [t EXCEPT !.mutex = FALSE]

\* tx.err after one pass of the loop of txArgs.Close; a mutant keeps the
\* first error whatever comes after it
txErrKeepsFirst(txerr, e) ==
    IF e = "nil" THEN txerr
    ELSE IF txerr = "nil" THEN e ELSE txerr

txErrAfter(txerr, e) ==
    IF e = "nil" THEN txerr
    ELSE IF ~isStable(e) THEN e
    ELSE IF txerr = "nil" THEN e ELSE txerr

\* the loop of txArgs.Close over tx.args: the error it leaves in tx.err
\* and the calls of tx.conn.Close() it makes
RECURSIVE txCloseLoop(_, _, _)
txCloseLoop(kids, txerr, hasConn) ==
    IF kids = <<>> THEN [err |-> txerr, closes |-> 0]
    ELSE LET e == kidErr(kids[1])
             rest == txCloseLoop(Tail(kids), txErrAfter(txerr, e), hasConn)
         IN [err |-> rest.err,
             closes |-> rest.closes +
                 (IF e # "nil" /\ ~isStable(e) /\ hasConn THEN 1 ELSE 0)]

\* a mutant of Next that keeps the mutex when there is no list left
txNextEmptyKeepsMutex(t) == [t EXCEPT !.mutex = TRUE]

\* txArgs.Next with no list left: the mutex is unlocked again
txNextEmpty(t) == [t EXCEPT !.mutex = FALSE]

TxReady == tx.kind = "tx" /\ txCaller.pc = "ready"

\* the call finds tx.mutex locked
TxBlocks(op) ==
    /\ tx.mutex
    /\ txCaller' = [txCaller EXCEPT !.pc = "blocked",
                                    !.last = TxCall(op, "blocked", tx.err)]
    /\ UNCHANGED <<tx, txConn>>

\* the reply of a transaction is read
TxRead ==
    /\ tx.kind = "none"
    /\ \E kids \in SeqsUpTo(Kids, MaxTxArgs) : tx' = ReadTxArgs(kids)
    /\ txConn' = [txConn EXCEPT !.rmutex = "locked"]
    /\ txCaller' = [txCaller EXCEPT !.last = TxCall("ReadTxArgs", "nil", "nil")]
    /\ UNCHANGED TxElsewhere

\* tx.Next()
TxNext ==
    /\ TxReady
    /\ \/ TxBlocks("Next")
       \/ /\ ~tx.mutex
          /\ tx.args = <<>>
          /\ tx' = txNextEmpty(tx)
          /\ txCaller' = [txCaller EXCEPT
                            !.last = TxCall("Next", "nil", tx.err)]
          /\ UNCHANGED txConn
       \/ /\ ~tx.mutex
          /\ tx.args # <<>>
          /\ tx' = [tx EXCEPT !.mutex = TRUE, !.args = Tail(@)]
          /\ txCaller' = [txCaller EXCEPT !.held = <<tx.args[1]>>,
                                          !.open = TRUE,
                                          !.last = TxCall("Next", "args",
                                                          tx.err)]
          /\ UNCHANGED txConn
    /\ UNCHANGED TxElsewhere

\* tx.Len()
TxLen ==
    /\ TxReady
    /\ \/ TxBlocks("Len")
       \/ /\ ~tx.mutex
          /\ txCaller' = [txCaller EXCEPT
                            !.last = TxCall("Len", Len(tx.args), tx.err)]
          /\ UNCHANGED <<tx, txConn>>
    /\ UNCHANGED TxElsewhere

\* tx.Close()
TxClose ==
    /\ TxReady
    /\ txCaller.closed < MaxTxCloses
    /\ \/ TxBlocks("Close")
       \/ /\ ~tx.mutex
          /\ LET r == txCloseLoop(tx.args, tx.err, tx.conn)
             IN /\ tx' = [tx EXCEPT
                            !.args = [i \in 1 .. Len(tx.args) |->
                                        kidClose(tx.args[i])],
                            !.err = r.err,
                            !.conn = FALSE]
                /\ txConn' = [txConn EXCEPT
                     !.closes = @ + r.closes,
                     !.rmutex = IF tx.conn THEN "unlocked" ELSE @,
                     !.unlocks = IF tx.conn THEN @ + 1 ELSE @]
                /\ txCaller' = [txCaller EXCEPT
                     !.closed = @ + 1,
                     !.last = TxCall("Close", r.err, tx.err)]
    /\ UNCHANGED TxElsewhere

\* the program closes the list it got from Next
TxKidClose ==
    /\ TxReady
    /\ txCaller.open
    /\ tx' = kidReleases(tx)
    /\ txCaller' = [txCaller EXCEPT
                      !.held = <<kidClose(@[1])>>,
                      !.open = FALSE,
                      !.last = TxCall("Args.Close",
                                      kidErr(txCaller.held[1]), tx.err)]
    /\ UNCHANGED txConn
    /\ UNCHANGED TxElsewhere

TxStep ==
    \/ TxRead
    \/ TxNext
    \/ TxLen
    \/ TxClose
    \/ TxKidClose

\* ------------------------------------------------------------ hash ring
\* NewHashRing gives every endpoint maxRingReplication points, each with a
\* token that is the hash of the endpoint and the number of the point, and
\* sorts the points by token; LookupServer searches the vector for the
\* hash of the key. The hash is any function into 0 .. MaxToken: a ring
\* does not keep the number of a point, so the tokens of one endpoint are
\* taken in ascending order. A key is known by its hash.

RingElsewhere == <<connVars, serverVars, metricsVars, argsVars, txVars>>

\* the endpoints of ring2 and ring3 of TestHashRing
Endpoints == <<"127.0.0.1:1000", "127.0.0.1:1001", "127.0.0.1:1002">>

\* points of one endpoint; the model takes two
maxRingReplication == 2

Tokens == 0 .. MaxToken

\* the tokens the hash gives the points of one endpoint
PointTokens ==
    {t \in [1 .. maxRingReplication -> Tokens] :
        \A i \in 1 .. maxRingReplication - 1 : t[i] <= t[i + 1]}

\* a mutant: the token of a point also depends on the size of the ring
pointTokenBySize(pts, e, i, n) == (pts[e][i] + n) % (MaxToken + 1)

\* the token of point i of endpoint e in a ring of n endpoints
pointToken(pts, e, i, n) == pts[e][i]

\* the points of endpoints e .. n of a ring of n endpoints, not sorted
RECURSIVE RingPoints(_, _, _)
RingPoints(pts, e, n) ==
    IF e > n THEN <<>>
    ELSE [i \in 1 .. maxRingReplication |->
             [token |-> pointToken(pts, e, i, n), endpoint |-> Endpoints[e]]]
         \o RingPoints(pts, e + 1, n)

Without(es, i) == SubSeq(es, 1, i - 1) \o SubSeq(es, i + 1, Len(es))

MinToken(es) ==
    CHOOSE t \in {es[i].token : i \in 1 .. Len(es)} :
        \A i \in 1 .. Len(es) : t <= es[i].token

\* every order of the points that is ascending by token: points with one
\* token may come out of the sort in any order
RECURSIVE SortedOrders(_)
SortedOrders(es) ==
    IF es = <<>> THEN {<<>>}
    ELSE UNION {{<<es[i]>> \o r : r \in SortedOrders(Without(es, i))} :
                  i \in {j \in 1 .. Len(es) : es[j].token = MinToken(es)}}

\* NewHashRing(Endpoints[1], .., Endpoints[n]) under the hash pts
NewHashRing(pts, n) == SortedOrders(RingPoints(pts, 1, n))

\* a search that skips a token equal to the hash
reachesStrictly(ring, i, h) == ring[i].token > h

\* the test of the binary search
reaches(ring, i, h) == ring[i].token >= h

\* the smallest index in lo + 1 .. hi + 1 whose token reaches h, or hi + 1
RECURSIVE Search(_, _, _, _)
Search(ring, h, lo, hi) ==
    IF lo >= hi THEN lo + 1
    ELSE LET mid == (lo + hi) \div 2
         IN IF reaches(ring, mid + 1, h)
            THEN Search(ring, h, lo, mid)
            ELSE Search(ring, h, mid + 1, hi)

wrap(ring, i) == IF i > Len(ring) THEN 1 ELSE i

\* ring.LookupServer(key) for a key of hash h
LookupServer(ring, h) ==
    ring[wrap(ring, Search(ring, h, 0, Len(ring)))].endpoint

\* distribute(ring, keys...)
distribute(ring, keys) == [k \in keys |-> LookupServer(ring, k)]

\* difference(dist1, dist2)
difference(dist1, dist2) ==
    {k \in DOMAIN dist1 : dist1[k] # dist2[k]}
    \cup {k \in DOMAIN dist2 : dist1[k] # dist2[k]}

\* samples of keys, of two keys or more
Samples ==
    {S \in SUBSET Tokens : Cardinality(S) >= 2 /\ Cardinality(S) <= MaxKeys}

\* the sizes of ring A and ring B: ring2 and ring3 of TestHashRing
RingSizes == {<<Len(Endpoints) - 1, Len(Endpoints)>>}

\* the two rings of a test case are built
NewHashRings ==
    /\ rings.A = <<>>
    /\ \E nn \in RingSizes, pts \in [1 .. Len(Endpoints) -> PointTokens] :
         \E a \in NewHashRing(pts, nn[1]), b \in NewHashRing(pts, nn[2]) :
             rings' = [A |-> a, B |-> b]
    /\ ringCall' = [op |-> "NewHashRing"]
    /\ UNCHANGED RingElsewhere

\* LookupServer(key) on both rings: of any key once the rings are built,
\* then of the same key again
RingLookup ==
    /\ ringCall.op \in {"NewHashRing", "LookupServer"}
    /\ \E h \in Tokens :
         /\ ringCall.op = "LookupServer" => h = ringCall.key
         /\ ringCall' = [op |-> "LookupServer", key |-> h,
                         a |-> LookupServer(rings.A, h),
                         b |-> LookupServer(rings.B, h),
                         calls |-> IF ringCall.op = "LookupServer"
                                   THEN 2 ELSE 1]
    /\ UNCHANGED rings
    /\ UNCHANGED RingElsewhere

\* distribute on both rings for one sample, and difference
RingDistribute ==
    /\ ringCall.op = "NewHashRing"
    /\ \E S \in Samples :
         LET distA == distribute(rings.A, S)
             distB == distribute(rings.B, S)
         IN ringCall' = [op |-> "distribute", keys |-> S,
                         a |-> distA, b |-> distB,
                         diff |-> difference(distA, distB)]
    /\ UNCHANGED rings
    /\ UNCHANGED RingElsewhere

RingStep ==
    \/ NewHashRings
    \/ RingLookup
    \/ RingDistribute

\* ======================================================== specifications

Init ==
    /\ ConnectionInit /\ ServerInit /\ MetricsInit /\ ArgsInit /\ TxInit
    /\ RingInit

\* one connection and any handler
Spec == Init /\ [][Next]_vars

\* one connection whose handler answers every command
PingSpec == Init /\ [][PingNext]_vars

\* the Server: Serve, Close, Shutdown
ServerSpec == Init /\ [][ServerNext]_vars

ServerFairSpec == ServerSpec /\ ServerFairness

\* the calls of serveCommands, with and without EnablePipeline
MetricsSpecInit ==
    /\ ConnectionInit /\ ServerInit /\ MetricsStart /\ ArgsInit /\ TxInit
    /\ RingInit

MetricsSpec == MetricsSpecInit /\ [][MetricsNext]_vars

\* one argument list and the calls made on it
ArgsSpec == Init /\ [][ArgsStep]_vars

\* the argument lists of one transaction and the program that reads them
TxSpec == Init /\ [][TxStep]_vars

\* two hash rings, one with the endpoints of the other and more
RingSpec == Init /\ [][RingStep]_vars

\* ================================================================ claims

\* what the client received since serveRequest began, and every value
\* encoded since then, flushed or not
Sent == SubSeq(wire, mark + 1, Len(wire))

Encoded == Sent \o wbuffer

\* serveRequest has returned: nil (the connection is back at the top of the
\* loop), or an error (the task has returned)
RequestOK == pc = "loop" /\ last.by = "server" /\ err = "nil"

RequestOver == RequestOK \/ (pc = "exited" /\ err # "nil")

\* the batch is a transaction closed by EXEC, and the commands queued in it
IsTransaction ==
    /\ Len(batch) >= 2
    /\ batch[1].Cmd = "MULTI"
    /\ batch[Len(batch)].Cmd = "EXEC"

Queued == SubSeq(batch, 2, Len(batch) - 1)

IsPing(c) == c.Cmd = "PING"

NotPing(c) == c.Cmd # "PING"

\* C1 as stated: whatever calls the handler makes before it returns (here
\* even without a panic or a Hijack), when the request is over the client
\* has received n values if WriteStream(n) succeeded and one value otherwise.
C1_EveryRequestWritesItsCount ==
    (RequestOver /\ res.conn /\ err # "panic" /\ last.op # "panic") =>
        CountVals(Sent) = (IF streamN >= 0 THEN streamN ELSE 1)

\* C1 amended: when serveRequest returns nil, the client has received
\* exactly n values (after the header of an array of n) if a WriteStream(n)
\* succeeded, exactly one value otherwise, and nothing is left unflushed.
C1_CompletedRequestWritesItsCount ==
    RequestOK =>
        /\ wbuffer = <<>>
        /\ CountVals(Sent) = (IF streamN >= 0 THEN streamN ELSE 1)
        /\ streamN >= 0 => Sent[1] = ArrayOpen(streamN)
        /\ streamN < 0 => Len(Sent) = 1

C1_Witness ==
    /\ RequestOK
    /\ streamN = 2
    /\ CountVals(Sent) = 2
    /\ invoked = 1

\* the remaining count a Write sees: a writer with no type yet becomes
\* one-shot with one write left
Effective(pre) == IF pre.wtype = "notype" THEN 1 ELSE pre.remain

\* C2: a Write on the responseWriter succeeds exactly when a write remains,
\* and then encodes one value and takes one off the remaining count (a first
\* Write makes the writer one-shot); otherwise it returns
\* ErrWriteCalledTooManyTimes and encodes nothing. The writes that succeeded
\* and the writes that remain add up to the n of WriteStream, or to 1 for a
\* one-shot writer, so exactly the first n (or the first one) succeed.
C2_WriteCountsDown ==
    /\ (pc = "handler" /\ last.op = "Write" /\ last.via = "base" /\ last.pre.conn) =>
         IF Effective(last.pre) > 0
         THEN /\ last.err = "nil"
              /\ res.remain = Effective(last.pre) - 1
              /\ res.wtype = (IF last.pre.wtype = "notype" THEN "oneshot"
                              ELSE last.pre.wtype)
              /\ Len(wbuffer) = Len(last.preBuf) + 1
              /\ wbuffer[Len(wbuffer)].t = "val"
         ELSE /\ last.err = "ErrWriteCalledTooManyTimes"
              /\ res = last.pre
              /\ wbuffer = last.preBuf
              /\ wire = last.preWire
    /\ (pc = "handler" /\ w = "base") =>
         /\ res.wtype = "stream" => CountVals(Encoded) + res.remain = streamN
         /\ res.wtype = "oneshot" => CountVals(Encoded) + res.remain = 1
         /\ res.wtype = "notype" => CountVals(Encoded) = 0

\* WriteStream(2), Write, Write, then a third Write that is refused
C2_Witness ==
    /\ pc = "handler"
    /\ w = "base"
    /\ streamN = 2
    /\ last.op = "Write"
    /\ last.err = "ErrWriteCalledTooManyTimes"
    /\ CountVals(Encoded) = 2

\* C3: WriteStream(n) on a responseWriter that is not hijacked succeeds
\* exactly when n >= 0 and the writer has no type yet, and then the writer is
\* a stream with n writes remaining; it returns ErrNegativeStreamCount for
\* n < 0, ErrWriteStreamCalledAfterWrite on a one-shot writer and
\* ErrWriteStreamCalledTooManyTimes on a stream, and then the writer and
\* the write buffer are as they were.
C3_WriteStreamOnlyFirst ==
    (pc = "handler" /\ last.op = "WriteStream" /\ last.via = "base" /\ last.pre.conn) =>
        IF last.n >= 0 /\ last.pre.wtype = "notype"
        THEN /\ last.err = "nil"
             /\ res = [conn |-> TRUE, wtype |-> "stream", remain |-> last.n]
             /\ wbuffer = Append(last.preBuf, ArrayOpen(last.n))
        ELSE /\ last.err = (IF last.n < 0 THEN "ErrNegativeStreamCount"
                            ELSE IF last.pre.wtype = "oneshot"
                                 THEN "ErrWriteStreamCalledAfterWrite"
                            ELSE "ErrWriteStreamCalledTooManyTimes")
             /\ res = last.pre
             /\ wbuffer = last.preBuf
             /\ wire = last.preWire

C3_Witness ==
    /\ pc = "handler"
    /\ last.op = "WriteStream"
    /\ last.via = "base"
    /\ last.n >= 0
    /\ last.pre.wtype = "oneshot"
    /\ last.err = "ErrWriteStreamCalledAfterWrite"

\* C4: Flush on a responseWriter with no type yet encodes OK and sends the
\* buffer; on a one-shot or stream writer it sends the buffer if no write
\* remains and otherwise returns ErrWriteCalledNotEnoughTimes and sends
\* nothing.
C4_FlushNeedsEveryWrite ==
    (last.op = "Flush" /\ last.via = "base" /\ last.pre.conn) =>
        IF last.pre.wtype = "notype"
        THEN /\ last.err = "nil"
             /\ wire = (last.preWire \o last.preBuf) \o <<Val("OK")>>
             /\ wbuffer = <<>>
        ELSE IF last.pre.remain = 0
        THEN /\ last.err = "nil"
             /\ wire = last.preWire \o last.preBuf
             /\ wbuffer = <<>>
        ELSE /\ last.err = "ErrWriteCalledNotEnoughTimes"
             /\ wire = last.preWire
             /\ wbuffer = last.preBuf

\* a handler that wrote nothing: the server answers OK
C4_Witness ==
    /\ RequestOK
    /\ invoked = 1
    /\ ncalls = 0
    /\ last.op = "Flush"
    /\ last.pre.wtype = "notype"
    /\ wire = <<Val("OK")>>

\* C5 as stated: a first Hijack returns without error and the state tag of
\* the connection is Hijacked; every call on a hijacked writer returns
\* ErrHijacked.
C5_HijackDetaches ==
    /\ (last.op = "Hijack" /\ last.pre.conn) =>
         (last.err = "nil" /\ connState = "Hijacked")
    /\ (last.op # "none" /\ last.via = "base" /\ ~last.pre.conn) =>
         last.err = "ErrHijacked"

\* C6 as stated: once the handler has hijacked the connection (res.conn is
\* nil) the server neither closes it nor sets its state tag to Closed.
C6_HijackedConnectionLeftAlone ==
    ~res.conn => (~connClosed /\ connState # "Closed")

\* C7 as stated: when the commands of MULTI cmd1 .. cmdk EXEC are handed to
\* serveCommands, the client has received OK and then k times QUEUED.
C7_TransactionAcks ==
    (pc = "serve" /\ IsTransaction) =>
        wire = <<Val("OK")>> \o Repeat(Val("QUEUED"), Len(Queued))

\* C8 as stated: after MULTI, k-1 commands and DISCARD the handler has not
\* been invoked and the client has received OK, k-1 times QUEUED, and OK.
C8_DiscardAcks ==
    (/\ pc = "loop"
     /\ Len(batch) >= 2
     /\ batch[1].Cmd = "MULTI"
     /\ batch[Len(batch)].Cmd = "DISCARD") =>
        /\ invoked = 0
        /\ wire = (<<Val("OK")>> \o Repeat(Val("QUEUED"), Len(batch) - 2))
                  \o <<Val("OK")>>

\* C9 as stated: for MULTI cmd1 .. cmdk EXEC the handler is invoked exactly
\* once, with [cmd1, .., cmdk].
C9_HandlerGetsEveryQueuedCommand ==
    (IsTransaction /\ RequestOver) =>
        (invoked = 1 /\ reqCmds = Queued)

\* C9 amended: for MULTI cmd1 .. cmdk EXEC the handler is invoked at most
\* once, with the queued commands that are not PING, in arrival order and
\* without MULTI and EXEC; it is invoked exactly once when there is such a
\* command and not at all otherwise.
C9_HandlerGetsQueuedUserCommands ==
    (IsTransaction /\ (pc = "handler" \/ RequestOver)) =>
        /\ reqCmds = SelectSeq(Queued, NotPing)
        /\ invoked = (IF SelectSeq(Queued, NotPing) # <<>> THEN 1 ELSE 0)

\* MULTI, two commands, EXEC: the handler was invoked once with the two
C9_Witness ==
    /\ IsTransaction
    /\ RequestOver
    /\ Len(batch) = 4
    /\ invoked = 1
    /\ reqCmds = Queued

\* the commands of the request: those queued in a transaction closed by
\* EXEC, or the one command read outside a transaction
Dispatched ==
    IF IsTransaction THEN Queued
    ELSE IF Len(batch) = 1 /\ batch[1].Cmd # "MULTI" THEN batch
    ELSE <<>>

\* the values among what the client received for the request
Replies == SelectSeq(Sent, LAMBDA e : e.t = "val")

\* C10 as stated: a request of PING commands only is answered without the
\* handler, one reply per PING (PONG, or the argument of the PING), and
\* serveRequest returns nil.
C10_PingOnlyBatchAnswered ==
    (/\ RequestOver
     /\ Dispatched # <<>>
     /\ \A i \in 1 .. Len(Dispatched) : IsPing(Dispatched[i])) =>
        /\ invoked = 0
        /\ err = "nil"
        /\ Replies = [i \in 1 .. Len(Dispatched) |->
                        Val(IF Dispatched[i].Args = <<>> THEN "PONG"
                            ELSE Dispatched[i].Args[1])]

\* the reply the client is due for a command of the request: the message
\* of a PING, a value of the handler for any other command
IsReplyTo(e, c) ==
    /\ e.t = "val"
    /\ IF IsPing(c) THEN e.v = PingMessage(c) ELSE e.v \in HandlerValues

\* the request has PING commands and others, and the handler was given
\* the others
MixedRequest ==
    /\ w = "prepared"
    /\ reqCmds # <<>>
    /\ Dispatched # <<>>

\* C11 as stated: for a request of p >= 1 PING commands and u >= 1 others
\* the handler finds the base writer a stream of u + p values, and when it
\* has written one value per command and returned, serveRequest returns nil
\* and the client has received u + p values.
C11_PingBatchOpensStream ==
    /\ (MixedRequest /\ pc = "handler" /\ ncalls = 0) =>
         (res.wtype = "stream" /\ res.remain = Len(Dispatched))
    /\ (MixedRequest /\ RequestOver) =>
         (err = "nil" /\ CountVals(Sent) = Len(Dispatched))

\* C12 as stated: for a request mixing PING commands with others, when the
\* handler has written one value per command in order and returned, the
\* j-th value the base writer encoded is the reply to the j-th command.
C12_RepliesInArrivalOrder ==
    (MixedRequest /\ RequestOver) =>
        /\ CountVals(Encoded) = Len(Dispatched)
        /\ \A j \in 1 .. Len(Dispatched) :
             IsReplyTo(SelectSeq(Encoded, LAMBDA e : e.t = "val")[j],
                       Dispatched[j])

C14_ShutdownReturnsOnceCtxDone ==
    (sdPc # "idle" /\ ctxDone) ~> (sdPc = "returned")

\* C15: Serve returns nothing but an error, and only after an Accept error:
\* ErrServerClosed when s.context was done (after the Accept error, or in
\* the back-off), the error of Accept itself when it is neither a timeout
\* nor temporary. After a timeout error Serve is back at Accept with attempt
\* as it was; after a temporary error that is no timeout attempt is one
\* more and Serve backs off; after a connection attempt is 0.
C15_ServeReturnsOnlyOnAcceptError ==
    /\ svPc # "returned" => svRet = "none"
    /\ svPc = "returned" =>
         /\ lastAccept.kind \in AcceptErrors
         /\ svRet \in {"ErrServerClosed", lastAccept.kind}
         /\ svRet = "ErrServerClosed" => cancelled
         /\ svRet # "ErrServerClosed" =>
               (~isTimeout(svRet) /\ ~isTemporary(svRet) /\ ~lastAccept.done)
    /\ lastAccept.kind = "conn" => (svPc = "accept" /\ attempt = 0)
    /\ (lastAccept.kind \in AcceptErrors /\ lastAccept.done) =>
         (svPc = "returned" /\ svRet = "ErrServerClosed")
    /\ (lastAccept.kind \in AcceptErrors /\ ~lastAccept.done) =>
         IF isTimeout(lastAccept.kind)
         THEN svPc = "accept" /\ attempt = lastAccept.before
         ELSE IF isTemporary(lastAccept.kind)
         THEN /\ attempt = lastAccept.before + 1
              /\ \/ svPc \in {"backoff", "accept"}
                 \/ svPc = "returned" /\ svRet = "ErrServerClosed" /\ cancelled
         ELSE svPc = "returned" /\ svRet = lastAccept.kind

\* a temporary error, and the shutdown signal fired in the back-off
C15_Witness ==
    /\ svPc = "returned"
    /\ svRet = "ErrServerClosed"
    /\ lastAccept.kind = "temporary"
    /\ ~lastAccept.done
    /\ attempt = 2

\* the connection task has returned, or has panicked
TaskOver == pc \in {"exited", "crashed"}

Panicked ==
    \/ last.op = "panic"
    \/ last.op = "Hijack" /\ last.err = "panic"

\* C17 as stated: after a panic of the handler the error is in the error
\* sink, the task has torn the connection down, and the client has received
\* nothing for the request.
C17_PanicLoggedNothingFlushed ==
    Panicked =>
        /\ pc = "exited"
        /\ connClosed
        /\ logged = <<err>>
        /\ Sent = <<>>

\* C17 amended: a panic of the handler ends serveRequest with the error made
\* of it; the task prints it to the error sink unless it is ErrHijacked, and
\* tears the connection down; the server flushes nothing after the panic, so
\* the client has what the handler flushed itself and no more.
C17_PanicRecoveredAndTornDown ==
    Panicked =>
        /\ pc = "exited"
        /\ connClosed
        /\ connState = "Closed"
        /\ err = last.err
        /\ err # "nil"
        /\ logged = (IF err = "ErrHijacked" THEN <<>> ELSE <<err>>)
        /\ wire = last.preWire
        /\ wbuffer = last.preBuf

\* the handler wrote a value and panicked: logged, and the value unflushed
C17_Witness ==
    /\ last.op = "panic"
    /\ err = "panic"
    /\ logged = <<"panic">>
    /\ wbuffer # <<>>
    /\ Sent = <<>>

ContractErrors ==
    {"ErrWriteStreamCalledAfterWrite", "ErrWriteStreamCalledTooManyTimes",
     "ErrNegativeStreamCount", "ErrWriteCalledTooManyTimes"}

\* the last call of the handler on the responseWriter broke the contract
Violation ==
    /\ pc = "handler"
    /\ last.via = "base"
    /\ last.err \in ContractErrors

\* C18 as stated: a contract violation is returned to the handler, the
\* connection stays open, and a Flush that follows fails.
C18_ViolationMakesFlushFail ==
    Violation =>
        /\ ~connClosed
        /\ Flush(res, wbuffer, wire).err # "nil"

\* C18 amended: a contract violation is returned to the handler and changes
\* nothing: the connection stays open and active, and the writer and the
\* write buffer are as they were before the call, so a Flush that follows
\* fails exactly when it would have failed before, with writes remaining.
C18_ViolationChangesNothing ==
    Violation =>
        /\ ~connClosed
        /\ connState = "Active"
        /\ res = last.pre
        /\ wbuffer = last.preBuf
        /\ wire = last.preWire
        /\ Flush(res, wbuffer, wire).err =
             (IF res.wtype # "notype" /\ res.remain # 0
              THEN "ErrWriteCalledNotEnoughTimes" ELSE "nil")

\* Write, then a Write too many: a Flush would send the first value
C18_Witness ==
    /\ Violation
    /\ last.err = "ErrWriteCalledTooManyTimes"
    /\ res.wtype = "oneshot"
    /\ Flush(res, wbuffer, wire).err = "nil"
    /\ Flush(res, wbuffer, wire).wire = wire \o wbuffer

\* the calls of IncCommands not yet undone, counted from the calls in
\* progress
RECURSIVE Held(_)
Held(st) ==
    IF st = <<>> THEN NoGauges.commands
    ELSE IncCommands(Held(SubSeq(st, 1, Len(st) - 1)), st[Len(st)].names)

\* C19: a call of serveCommands that has returned, nested or not and with
\* or without an error, has left the in-flight request counter and the
\* in-flight command counters as it found them; while calls are in progress
\* the counters hold exactly one IncRequest and one IncCommands(names) for
\* each of them.
C19_CountersBalanced ==
    /\ returned.after = returned.before
    /\ gRequests = Len(stack)
    /\ gCommands = Held(stack)
    /\ stack = <<>> => Gauges = NoGauges

\* a call made by servePipeline for two commands, one a PING, ended with
\* an error
C19_Witness ==
    /\ returned.depth = 2
    /\ returned.err = "error"
    /\ returned.names = <<"PING", "SET">>
    /\ returned.after = returned.before
    /\ returned.before.requests = 1

\* the values of an argument list that no Next has read and no Close has
\* discarded
RECURSIVE SumUnread(_)
SumUnread(as) ==
    IF as = <<>> THEN 0
    ELSE (IF as[1].kind = "bytes" THEN Len(as[1].args)
          ELSE IF as[1].kind = "list" THEN Len(as[1].dec)
          ELSE 0) + SumUnread(Tail(as))

Unread(a) == IF a.kind = "multi" THEN SumUnread(a.args) ELSE SumUnread(<<a>>)

\* C20 as stated: Len() of an argument list of any kind is the number of
\* values that remain to be read, and 0 once a Next on it has failed with
\* an error, whatever remains unread.
C20_LenIsRemainingOrZeroAfterError ==
    args.kind # "none" =>
        argsLen(args) = (IF argsFailed THEN 0 ELSE Unread(args))

\* the errors the lists still in tx.args return from Close, in order
RECURSIVE KidErrors(_)
KidErrors(kids) ==
    IF kids = <<>> THEN <<>>
    ELSE (IF kidErr(kids[1]) = "nil" THEN <<>> ELSE <<kidErr(kids[1])>>)
         \o KidErrors(Tail(kids))

TxCloseReturned ==
    txCaller.last.op = "Close" /\ txCaller.last.ret # "blocked"

\* C21: when a call of txArgs.Close has returned, every list left in the
\* txArgs is closed and the read-mutex of the connection has been unlocked
\* once, however many calls of Close returned. If the txArgs held no error
\* from an earlier Close: when every error the lists return from Close is
\* a resp.Error the connection was not closed and Close returned the first
\* of them (nil when there is none); when one of them is not a resp.Error
\* the connection was closed and Close returned an error that is not a
\* resp.Error, wherever it stands among the others.
C21_CloseReleasesOnceAndReportsFatal ==
    TxCloseReturned =>
        /\ \A i \in 1 .. Len(tx.args) : tx.args[i].closed
        /\ txConn.unlocks = 1
        /\ txConn.rmutex = "unlocked"
        /\ txCaller.last.pre = "nil" =>
             LET errs == KidErrors(tx.args)
             IN IF \A i \in 1 .. Len(errs) : isStable(errs[i])
                THEN /\ txConn.closes = 0
                     /\ txCaller.last.ret
                          = (IF errs = <<>> THEN "nil" ELSE errs[1])
                ELSE /\ txConn.closes > 0
                     /\ txCaller.last.ret \in FatalErrors

\* Close returned twice on lists of which the first fails with a
\* resp.Error and the second with another error
C21_Witness ==
    /\ TxCloseReturned
    /\ txCaller.closed = 2
    /\ Len(tx.args) = 2
    /\ isStable(kidErr(tx.args[1]))
    /\ kidErr(tx.args[2]) \in FatalErrors
    /\ txConn.closes = 1
    /\ txConn.unlocks = 1

\* no list that Next handed out is still open
NoListOpen == ~txCaller.open

C22_NothingReadIsAnError ==
    argsLast.op = "ParseArgs" =>
        /\ (argsLast.given.kind # "none" /\ Len(argsLast.dsts) = 1
               /\ argsLast.read = 0) => argsLast.err # "nil"
        /\ argsLast.given.kind = "none" => argsLast.err = "ErrNilArgs"

\* C26: whenever the connection task is at the top of its loop, the command
\* reader of the iteration before is closed (it holds the read-mutex of
\* the connection no more) and the connection is New or Idle, also after a
\* transaction that ended in DISCARD; so the next ReadCommands can go on.
C26_ReaderClosedBeforeNextIteration ==
    pc = "loop" => (~rmutex /\ connState \in {"New", "Idle"})

\* C27: when the handler has been invoked in an iteration whose first
\* command was MULTI, the last command read in it was EXEC: a transaction
\* the reader stopped delivering before EXEC or DISCARD is not handed to
\* the handler.
C27_OnlyExecReachesHandler ==
    (invoked > 0 /\ batch # <<>> /\ batch[1].Cmd = "MULTI") =>
        batch[Len(batch)].Cmd = "EXEC"

\* the endpoints a ring was built from
EndpointsOf(ring) == {ring[i].endpoint : i \in 1 .. Len(ring)}

NoSharedToken(ring) ==
    \A i, j \in 1 .. Len(ring) :
        ring[i].token = ring[j].token => ring[i].endpoint = ring[j].endpoint

Successor(ring, h) ==
    LET I == {i \in 1 .. Len(ring) : ring[i].token >= h}
    IN IF I = {} THEN 1 ELSE CHOOSE i \in I : \A j \in I : i <= j

Ascending(ring) ==
    \A i \in 1 .. Len(ring) - 1 : ring[i].token <= ring[i + 1].token

EntriesOf(ring, e) == {i \in 1 .. Len(ring) : ring[i].endpoint = e}

\* C24: a ring, before and after any lookup, is ascending by token and
\* holds maxRingReplication entries for each of its endpoints; every call
\* of LookupServer, the first for a key and the one after it, returns the
\* endpoint of the first entry whose token is the hash of the key or more,
\* and of the first entry of the ring when no token is.
C24_LookupFindsSuccessor ==
    rings.A # <<>> =>
        /\ \A ring \in {rings.A, rings.B} :
             /\ Ascending(ring)
             /\ \A e \in EndpointsOf(ring) :
                  Cardinality(EntriesOf(ring, e)) = maxRingReplication
        /\ ringCall.op = "LookupServer" =>
             /\ ringCall.a
                  = rings.A[Successor(rings.A, ringCall.key)].endpoint
             /\ ringCall.b
                  = rings.B[Successor(rings.B, ringCall.key)].endpoint

\* the second lookup of a key whose hash is above every token of ring A
\* and not above every token of ring B
C24_Witness ==
    /\ ringCall.op = "LookupServer"
    /\ ringCall.calls = 2
    /\ \A i \in 1 .. Len(rings.A) : rings.A[i].token < ringCall.key
    /\ \E i \in 1 .. Len(rings.B) : rings.B[i].token >= ringCall.key
    /\ ringCall.a # ringCall.b

====
